---- MODULE Spec2Model ----
(***************************************************************************)
(* The two annotation overlays of the note-taking app:                     *)
(*   ScribbleOverlay.tsx  - freehand drawing surface (specification Spec)  *)
(*   TextboxOverlay.tsx   - draggable text boxes (specification SpecText)  *)
(* Every action is one browser event: the handler that React has bound at  *)
(* that moment, followed by the render and the effects it causes.          *)
(* Pixels carry no colour: strokeColor and the swatches are left out.      *)
(***************************************************************************)
EXTENDS Integers, Sequences, FiniteSets, TLC

\* ---------------------------------------------------------------- bounds
\* The layouts the environment goes through are the first NLayouts entries
\* of Layouts: <<container width, container height, device pixel ratio>>,
\* the sizes in CSS pixels.
NLayouts == 4

\* ------------------------------------------------------ program constants
\* ctx.lineWidth of the eraser and of the pencil.
EraserWidth == 20

PencilWidth == 2

Min2(a, b) == IF a < b THEN a ELSE b

Layouts ==
  << <<1, 1, 1>>, <<2, 1, 1>>, <<1, 1, 2>>, <<2, 1, 2>>, <<1, 2, 1>>, <<2, 2, 1>> >>

LayoutSet == {Layouts[i] : i \in 1 .. Min2(NLayouts, Len(Layouts))}

VARIABLES
  \* ScribbleOverlay: React state
  isScribbleMode, isDrawing, isEraser, isSpaceHeld, backgroundState,
  displayIntroText,
  \* ScribbleOverlay: refs
  isMouseDown, didDrawInStroke, lastDrawnState,
  \* the canvas element and its 2D context
  canvasW, canvasH, raster, scale, pathCells, pen, gco, lineWidth,
  \* whether canvas.getContext('2d') gives a context
  ctxOk,
  \* closure variable of the KeyBindings effect
  isTabPressed,
  \* the keyboard as it physically is
  spaceDown, eDown,
  \* history of the pointer gesture in progress
  pairOpen, begins,
  \* history: the surface was cleared and no stroke has painted since
  cleared,
  \* TextboxOverlay: props and React state
  textboxes, isTextboxMode, dragState,
  \* what the registered window listeners of the drag effect closed over
  mmTextboxes,
  \* how many mousemove and mouseup listeners the drag effect has on window
  dragListeners,
  \* closure variable of the KeyBindings effect of the textbox overlay
  isTabPressedT,
  \* Date.now(), and the textarea that has the focus (0: none)
  now, focused,
  \* history of the drag in progress
  grab,
  \* the Tab key as it physically is (both overlays listen to it)
  tabDown

scribbleVars ==
  <<isScribbleMode, isDrawing, isEraser, isSpaceHeld, backgroundState,
    displayIntroText, isMouseDown, didDrawInStroke, lastDrawnState,
    canvasW, canvasH, raster, scale, pathCells, pen, gco, lineWidth, ctxOk,
    isTabPressed, spaceDown, eDown, pairOpen, begins, cleared>>

textVars ==
  <<textboxes, isTextboxMode, dragState, mmTextboxes, dragListeners, isTabPressedT, now,
    focused, grab>>

vars == <<scribbleVars, textVars, tabDown>>

\* ------------------------------------------------------------- raster
\* A pixel is a pair <<x, y>> of device coordinates.  The raster is the set
\* of painted pixels.  A point of user space covers, under the context's
\* scale s, the s-by-s block of device pixels it is mapped to.
NoPoint == <<-1, -1>>

NoImage == [w |-> 0, h |-> 0, px |-> {}]

Block(s, c) ==
  {<<c[1] * s + i, c[2] * s + j>> : i \in 0 .. s - 1, j \in 0 .. s - 1}

Blocks(s, S) == UNION {Block(s, c) : c \in S}

Clip(w, h, S) == {c \in S : c[1] < w /\ c[2] < h}

Max2(a, b) == IF a < b THEN b ELSE a

\* The lattice points of the segment from p to q.
LinePoints(p, q) ==
  {c \in (Min2(p[1], q[1]) .. Max2(p[1], q[1])) \X (Min2(p[2], q[2]) .. Max2(p[2], q[2])) :
     (c[1] - p[1]) * (q[2] - p[2]) = (c[2] - p[2]) * (q[1] - p[1])}

\* ctx.getImageData(0, 0, canvas.width, canvas.height)
GetImageData(w, h, px) == [w |-> w, h |-> h, px |-> px]

\* ctx.stroke(): the whole current path, composited with the current mode.
Stroke(mode, px, path, w, h) ==
  IF mode = "destination-out" THEN px \ path ELSE px \cup Clip(w, h, path)

\* The surface size in CSS pixels (canvas.style.width / height).
cssW == canvasW \div scale

cssH == canvasH \div scale

\* ------------------------------------------------------------- effects
\* "Save canvas state after each stroke": runs after a render in which
\* isDrawing changed; drawingNow and didDraw are the values it then reads.
SaveDue(drawingNow, didDraw) == ~drawingNow /\ didDraw

\* ------------------------------------------------------------- handlers
ctxVars == <<gco, lineWidth, pathCells, pen>>

strokeVars == <<isDrawing, isMouseDown, didDrawInStroke, lastDrawnState>>

\* Variant: the pointer-held flag is left set.
stopDrawingKeepsPointer ==
  IF ~isDrawing
  THEN UNCHANGED <<strokeVars, ctxVars>>
  ELSE /\ gco' = IF ctxOk THEN "source-over" ELSE gco
       /\ isDrawing' = FALSE
       /\ didDrawInStroke' = FALSE
       /\ UNCHANGED <<isMouseDown, lastDrawnState, lineWidth, pathCells, pen>>

\* Variant: the compositing mode is left as the stroke set it.
stopDrawingKeepsMode ==
  IF ~isDrawing
  THEN UNCHANGED <<strokeVars, ctxVars>>
  ELSE /\ isDrawing' = FALSE
       /\ isMouseDown' = FALSE
       /\ didDrawInStroke' = FALSE
       /\ UNCHANGED <<lastDrawnState, ctxVars>>

stopDrawing ==
  IF ~isDrawing
  THEN UNCHANGED <<strokeVars, ctxVars>>
  ELSE /\ gco' = IF ctxOk THEN "source-over" ELSE gco
       /\ isDrawing' = FALSE
       /\ isMouseDown' = FALSE
       /\ LET didDraw == FALSE
          IN  /\ lastDrawnState' =
                   IF SaveDue(FALSE, didDraw)
                   THEN GetImageData(canvasW, canvasH, raster)
                   ELSE lastDrawnState
              /\ didDrawInStroke' = IF SaveDue(FALSE, didDraw) THEN FALSE ELSE didDraw
       /\ UNCHANGED <<lineWidth, pathCells, pen>>

\* Variant: startDrawing without its mode guard.
startDrawingUnguarded(x, y) ==
  /\ displayIntroText' = FALSE
  /\ isDrawing' = TRUE
  /\ isMouseDown' = TRUE
  /\ didDrawInStroke' = FALSE
  /\ IF ctxOk
     THEN /\ pathCells' = {}
          /\ pen' = <<x, y>>
          /\ gco' = IF isEraser THEN "destination-out" ELSE "source-over"
          /\ lineWidth' = IF isEraser THEN EraserWidth ELSE PencilWidth
     ELSE UNCHANGED ctxVars
  /\ UNCHANGED lastDrawnState

startDrawing(x, y) ==
  IF ~isScribbleMode
  THEN UNCHANGED <<strokeVars, ctxVars, displayIntroText>>
  ELSE /\ displayIntroText' = FALSE
       /\ isDrawing' = TRUE
       /\ isMouseDown' = TRUE
       /\ didDrawInStroke' = FALSE
       /\ IF ctxOk
          THEN /\ pathCells' = {}
               /\ pen' = <<x, y>>
               /\ gco' = IF isEraser THEN "destination-out" ELSE "source-over"
               /\ lineWidth' = IF isEraser THEN EraserWidth ELSE PencilWidth
          ELSE UNCHANGED ctxVars
       /\ UNCHANGED lastDrawnState

\* Variant: a stroke is started whether or not one is in progress.
shouldStartStrokeAlways == isSpaceHeld \/ isMouseDown

shouldStartStroke == (isSpaceHeld \/ isMouseDown) /\ ~isDrawing

draw(x, y) ==
  IF ~isScribbleMode
  THEN UNCHANGED <<strokeVars, ctxVars, displayIntroText, raster>>
  ELSE IF shouldStartStroke
  THEN startDrawing(x, y) /\ UNCHANGED raster
  ELSE IF isDrawing /\ (isSpaceHeld \/ isMouseDown) /\ ctxOk
  THEN /\ pen' = <<x, y>>
       /\ pathCells' =
            IF pen = NoPoint THEN pathCells
            ELSE pathCells \cup Blocks(scale, LinePoints(pen, <<x, y>>))
       /\ raster' = Stroke(gco, raster, pathCells', canvasW, canvasH)
       /\ didDrawInStroke' = TRUE
       /\ UNCHANGED <<isDrawing, isMouseDown, lastDrawnState, gco, lineWidth,
                      displayIntroText>>
  ELSE UNCHANGED <<strokeVars, ctxVars, displayIntroText, raster>>

clearCanvas == raster' = IF ctxOk THEN {} ELSE raster

\* updateCanvasSize for a container of w by h CSS pixels at device pixel
\* ratio d; tempOk tells whether the scratch canvas gave a 2D context.  With
\* no context at mount the effect returns before it defines and registers
\* updateCanvasSize.
updateCanvasSize(w, h, d, tempOk) ==
  IF ~ctxOk \/ (canvasW = w * d /\ canvasH = h * d)
  THEN UNCHANGED <<canvasW, canvasH, raster, scale, ctxVars, lastDrawnState>>
  ELSE LET currentState == lastDrawnState
           tempCanvas == raster
           restored ==
             IF tempOk THEN Clip(w * d, h * d, Blocks(d, tempCanvas))
             ELSE IF currentState # NoImage THEN Clip(w * d, h * d, currentState.px)
             ELSE {}
       IN  /\ canvasW' = w * d
           /\ canvasH' = h * d
           /\ scale' = d
           /\ pathCells' = {}
           /\ pen' = NoPoint
           /\ gco' = "source-over"
           /\ raster' = restored
           /\ lastDrawnState' =
                IF tempOk THEN GetImageData(w * d, h * d, restored) ELSE lastDrawnState
           /\ lineWidth' = PencilWidth

\* ------------------------------------------------------------- events
Positions == {<<x, y>> : x \in 0 .. cssW - 1, y \in 0 .. cssH - 1}

\* The canvas takes part in hit testing only in scribble mode.
pointerEvents == isScribbleMode

flagVars == <<isEraser, isSpaceHeld, backgroundState>>

keysVars == <<isTabPressed, spaceDown, eDown>>

canvasVars == <<canvasW, canvasH, scale, ctxOk>>

NoGesture == pairOpen' = FALSE /\ begins' = 0

MouseDown ==
  \E p \in Positions :
    /\ startDrawing(p[1], p[2])
    /\ pairOpen' = isScribbleMode
    /\ UNCHANGED <<textVars, tabDown>>
    /\ begins' = IF isScribbleMode THEN 1 ELSE 0
    /\ UNCHANGED <<isScribbleMode, flagVars, keysVars, canvasVars, raster>>
    /\ UNCHANGED cleared

\* draw gets to ctx.lineTo and ctx.stroke.
Paints ==
  /\ isScribbleMode /\ ~shouldStartStroke
  /\ isDrawing /\ (isSpaceHeld \/ isMouseDown) /\ ctxOk

\* A pointer-move over the surface, at p.
MouseMoveAt(p) ==
  /\ p \in Positions
  /\ draw(p[1], p[2])
  /\ cleared' = IF Paints /\ raster' # {} THEN FALSE ELSE cleared
  /\ pairOpen' = pairOpen
  /\ UNCHANGED <<textVars, tabDown>>
  /\ begins' = IF pairOpen /\ isScribbleMode /\ shouldStartStroke
               THEN begins + 1 ELSE begins
  /\ UNCHANGED <<isScribbleMode, flagVars, keysVars, canvasVars>>

MouseMove == \E p \in Positions : MouseMoveAt(p)

MouseUp ==
  /\ pointerEvents
  /\ stopDrawing
  /\ NoGesture
  /\ UNCHANGED <<textVars, tabDown>>
  /\ UNCHANGED <<isScribbleMode, flagVars, keysVars, canvasVars, raster,
                 displayIntroText>>
  /\ UNCHANGED cleared

MouseOut ==
  /\ pointerEvents
  /\ stopDrawing
  /\ NoGesture
  /\ UNCHANGED <<textVars, tabDown>>
  /\ UNCHANGED <<isScribbleMode, flagVars, keysVars, canvasVars, raster,
                 displayIntroText>>
  /\ UNCHANGED cleared

KeyDownSpace ==
  /\ spaceDown' = TRUE
  /\ IF isScribbleMode
     THEN isSpaceHeld' = TRUE /\ isEraser' = FALSE
     ELSE UNCHANGED <<isSpaceHeld, isEraser>>
  /\ NoGesture
  /\ UNCHANGED <<textVars, tabDown>>
  /\ UNCHANGED <<isScribbleMode, backgroundState, isTabPressed, eDown, strokeVars,
                 ctxVars, canvasVars, raster, displayIntroText>>
  /\ UNCHANGED cleared

KeyDownE ==
  /\ eDown' = TRUE
  /\ IF isScribbleMode
     THEN isEraser' = TRUE /\ isSpaceHeld' = TRUE
     ELSE UNCHANGED <<isSpaceHeld, isEraser>>
  /\ NoGesture
  /\ UNCHANGED <<textVars, tabDown>>
  /\ UNCHANGED <<isScribbleMode, backgroundState, isTabPressed, spaceDown, strokeVars,
                 ctxVars, canvasVars, raster, displayIntroText>>
  /\ UNCHANGED cleared

\* handleKeyUp has the same body for "Space" and for "KeyE".
handleKeyUp ==
  IF isScribbleMode
  THEN /\ isEraser' = backgroundState
       /\ isSpaceHeld' = FALSE
       /\ stopDrawing
  ELSE UNCHANGED <<isEraser, isSpaceHeld, strokeVars, ctxVars>>

KeyUpSpace ==
  /\ spaceDown
  /\ spaceDown' = FALSE
  /\ handleKeyUp
  /\ NoGesture
  /\ UNCHANGED <<textVars, tabDown>>
  /\ UNCHANGED <<isScribbleMode, backgroundState, isTabPressed, eDown, canvasVars,
                 raster, displayIntroText>>
  /\ UNCHANGED cleared

KeyUpE ==
  /\ eDown
  /\ eDown' = FALSE
  /\ handleKeyUp
  /\ NoGesture
  /\ UNCHANGED <<textVars, tabDown>>
  /\ UNCHANGED <<isScribbleMode, backgroundState, isTabPressed, spaceDown, canvasVars,
                 raster, displayIntroText>>
  /\ UNCHANGED cleared

\* KeyBindings effect.  isTabPressed is a local of the effect: the effect
\* runs again, and the local starts again at false, when isScribbleMode
\* changes.  A key that is held down repeats its keydown.
KeyDownTab ==
  /\ tabDown' = TRUE
  /\ isTabPressed' = TRUE
  /\ NoGesture
  /\ UNCHANGED textVars
  /\ UNCHANGED <<isScribbleMode, flagVars, spaceDown, eDown, strokeVars, ctxVars,
                 canvasVars, raster, displayIntroText>>
  /\ UNCHANGED cleared

KeyUpTab ==
  /\ tabDown
  /\ tabDown' = FALSE
  /\ isTabPressed' = FALSE
  /\ NoGesture
  /\ UNCHANGED textVars
  /\ UNCHANGED <<isScribbleMode, flagVars, spaceDown, eDown, strokeVars, ctxVars,
                 canvasVars, raster, displayIntroText>>
  /\ UNCHANGED cleared

KeyDownS ==
  /\ IF isTabPressed
     THEN isScribbleMode' = ~isScribbleMode /\ isTabPressed' = FALSE
     ELSE UNCHANGED <<isScribbleMode, isTabPressed>>
  /\ NoGesture
  /\ UNCHANGED <<textVars, tabDown>>
  /\ UNCHANGED <<flagVars, spaceDown, eDown, strokeVars, ctxVars, canvasVars, raster,
                 displayIntroText>>
  /\ UNCHANGED cleared

KeyDownEscape ==
  /\ IF isScribbleMode
     THEN isScribbleMode' = FALSE /\ isTabPressed' = FALSE
     ELSE UNCHANGED <<isScribbleMode, isTabPressed>>
  /\ NoGesture
  /\ UNCHANGED <<textVars, tabDown>>
  /\ UNCHANGED <<flagVars, spaceDown, eDown, strokeVars, ctxVars, canvasVars, raster,
                 displayIntroText>>
  /\ UNCHANGED cleared

\* The tool bar is rendered only in scribble mode.
ClickPencil ==
  /\ isScribbleMode
  /\ isEraser' = FALSE
  /\ backgroundState' = FALSE
  /\ NoGesture
  /\ UNCHANGED <<textVars, tabDown>>
  /\ UNCHANGED <<isScribbleMode, isSpaceHeld, keysVars, strokeVars, ctxVars, canvasVars,
                 raster, displayIntroText>>
  /\ UNCHANGED cleared

ClickEraser ==
  /\ isScribbleMode
  /\ isEraser' = TRUE
  /\ backgroundState' = TRUE
  /\ NoGesture
  /\ UNCHANGED <<textVars, tabDown>>
  /\ UNCHANGED <<isScribbleMode, isSpaceHeld, keysVars, strokeVars, ctxVars, canvasVars,
                 raster, displayIntroText>>
  /\ UNCHANGED cleared

ClickClear ==
  /\ isScribbleMode
  /\ clearCanvas
  /\ cleared' = ctxOk
  /\ NoGesture
  /\ UNCHANGED <<textVars, tabDown>>
  /\ UNCHANGED <<isScribbleMode, flagVars, keysVars, strokeVars, ctxVars, canvasVars,
                 displayIntroText>>

\* A window resize or scroll event, with what the layout then measures.
ResizeTo(l, tempOk) ==
  /\ updateCanvasSize(l[1], l[2], l[3], tempOk)
  /\ UNCHANGED ctxOk
  /\ NoGesture
  /\ UNCHANGED <<textVars, tabDown>>
  /\ UNCHANGED <<isScribbleMode, flagVars, keysVars, isDrawing, isMouseDown,
                 didDrawInStroke, displayIntroText>>
  /\ UNCHANGED cleared

Resize == \E l \in LayoutSet, tempOk \in BOOLEAN : ResizeTo(l, tempOk)


\* =========================================================== TextboxOverlay
\* ---------------------------------------------------------------- bounds
\* Most textboxes in the collection, largest pointer coordinate, largest
\* scroll offset, last clock reading.
MaxBoxes == 2
MaxCoord == 1
MaxScroll == 1
MaxClock == 1

Texts == {"", "a"}

Coords == 0 .. MaxCoord

Scrolls == 0 .. MaxScroll

\* The positions a box is followed over: an event that would take a box
\* out of them is left out.
PosRange == 0 .. MaxCoord

NoDrag == [id |-> <<"none", 0>>, startX |-> 0, startY |-> 0]

\* grab: the box a drag took hold of (idx, 0: none), the box's position
\* (ox, oy) and the pointer's (px, py) at pointer-down, and where the
\* pointer is now (lx, ly).
NoGrab == [idx |-> 0, ox |-> 0, oy |-> 0, px |-> 0, py |-> 0, lx |-> 0, ly |-> 0]

\* The history of a drag is kept until the first event after its pointer-up.
KeepGrab == grab' = IF dragState = NoDrag THEN NoGrab ELSE grab

\* `textbox-${Date.now()}`
NewId(t) == <<"textbox-", t>>

\* The textarea of a box is mounted while the box is editing; a textarea
\* that mounts takes the focus (autoFocus), one that unmounts loses it.
FocusAfter(old, new, f) ==
  LET mounts == {j \in 1 .. Len(new) :
                   new[j].isEditing /\ ~(j <= Len(old) /\ old[j].isEditing)}
  IN  IF mounts # {} THEN CHOOSE j \in mounts : \A k \in mounts : k <= j
      ELSE IF f # 0 /\ f <= Len(new) /\ new[f].isEditing THEN f
      ELSE 0

\* ------------------------------------------------------------- handlers
\* Variant: the click's client coordinates without the scroll offset.
handleOverlayClickNoScroll(cx, cy, sx, sy) ==
  IF ~isTextboxMode
  THEN UNCHANGED <<textboxes, isTextboxMode, isTabPressedT>>
  ELSE LET newTextbox == [id |-> NewId(now), x |-> cx, y |-> cy,
                          text |-> "", isEditing |-> TRUE]
       IN  /\ textboxes' = Append(textboxes, newTextbox)
           /\ isTextboxMode' = FALSE
           /\ isTabPressedT' = FALSE

handleOverlayClick(cx, cy, sx, sy) ==
  IF ~isTextboxMode
  THEN UNCHANGED <<textboxes, isTextboxMode, isTabPressedT>>
  ELSE LET newTextbox == [id |-> NewId(now), x |-> cx + sx, y |-> cy + sy,
                          text |-> "", isEditing |-> TRUE]
       IN  /\ textboxes' = Append(textboxes, newTextbox)
           /\ isTextboxMode' = FALSE
           /\ isTabPressedT' = FALSE

\* Variant: the tracked pointer position is not moved on.
handleMouseMoveFromStart(boxes, drag, cx, cy) ==
  LET dx == cx - drag.startX
      dy == cy - drag.startY
      moved(tb) == IF tb.id = drag.id
                   THEN [tb EXCEPT !.x = tb.x + dx, !.y = tb.y + dy]
                   ELSE tb
  IN  /\ textboxes' = [j \in 1 .. Len(boxes) |-> moved(boxes[j])]
      /\ dragState' = drag

\* handleMouseMove as registered by the drag effect: `boxes` and `drag` are
\* the textboxes and dragState of the render that registered it.
handleMouseMove(boxes, drag, cx, cy) ==
  LET dx == cx - drag.startX
      dy == cy - drag.startY
      moved(tb) == IF tb.id = drag.id
                   THEN [tb EXCEPT !.x = tb.x + dx, !.y = tb.y + dy]
                   ELSE tb
  IN  /\ textboxes' = [j \in 1 .. Len(boxes) |-> moved(boxes[j])]
      /\ dragState' = [drag EXCEPT !.startX = cx, !.startY = cy]

handleMouseUp == dragState' = NoDrag

handleTextChange(id, text) ==
  LET commit(tb) == IF tb.id = id THEN [tb EXCEPT !.text = text, !.isEditing = FALSE]
                    ELSE tb
  IN  textboxes' = [j \in 1 .. Len(textboxes) |-> commit(textboxes[j])]

\* The drag effect: after a render in which dragState changed, the old
\* listeners are removed and, when a drag is on, new ones are added that
\* close over that render's textboxes.
NoListeners == [mousemove |-> 0, mouseup |-> 0]

\* Variant: the effect has no cleanup.
DragEffectNoCleanup ==
  /\ mmTextboxes' = IF dragState' # NoDrag THEN textboxes' ELSE <<>>
  /\ LET added == IF dragState' # NoDrag THEN 1 ELSE 0
     IN  dragListeners' = [mousemove |-> dragListeners.mousemove + added,
                           mouseup |-> dragListeners.mouseup + added]

DragEffect ==
  /\ mmTextboxes' = IF dragState' # NoDrag THEN textboxes' ELSE <<>>
  /\ LET removed == IF dragState # NoDrag THEN 1 ELSE 0
         added == IF dragState' # NoDrag THEN 1 ELSE 0
     IN  dragListeners' = [mousemove |-> dragListeners.mousemove - removed + added,
                           mouseup |-> dragListeners.mouseup - removed + added]

\* ------------------------------------------------------------- events
modeVars == <<isTextboxMode, isTabPressedT>>

InRange(boxes) == \A j \in 1 .. Len(boxes) : boxes[j].x \in PosRange /\ boxes[j].y \in PosRange

\* A click on the placement catcher at client (cx, cy), the window scrolled
\* by (sx, sy).  The pointer is up and its press took the focus away.
OverlayClickAt(cx, cy, sx, sy) ==
  /\ dragState = NoDrag
  /\ focused = 0
  /\ Len(textboxes) < MaxBoxes
  /\ handleOverlayClick(cx, cy, sx, sy)
  /\ InRange(textboxes')
  /\ focused' = FocusAfter(textboxes, textboxes', focused)
  /\ KeepGrab
  /\ UNCHANGED <<dragState, mmTextboxes, dragListeners, now>>
  /\ UNCHANGED <<scribbleVars, tabDown>>

OverlayClick ==
  \E cx \in Coords, cy \in Coords, sx \in Scrolls, sy \in Scrolls :
    OverlayClickAt(cx, cy, sx, sy)

\* A pointer-down at client (cx, cy) on box i, anywhere but on its delete
\* button: on the box's own area or on what it holds (the textarea, the
\* text), from where the event bubbles to the box.
BoxMouseDownAt(i, cx, cy) ==
  /\ i \in 1 .. Len(textboxes)
  /\ dragState = NoDrag
  /\ dragState' = [id |-> textboxes[i].id, startX |-> cx, startY |-> cy]
  /\ UNCHANGED <<textboxes, modeVars, now, focused>>
  /\ DragEffect
  /\ grab' = [idx |-> i, ox |-> textboxes[i].x, oy |-> textboxes[i].y,
              px |-> cx, py |-> cy, lx |-> cx, ly |-> cy]
  /\ UNCHANGED <<scribbleVars, tabDown>>

BoxMouseDown ==
  \E i \in 1 .. Len(textboxes), cx \in Coords, cy \in Coords : BoxMouseDownAt(i, cx, cy)

\* A pointer-move to client (cx, cy) while the drag listeners are registered.
WinMouseMoveAt(cx, cy) ==
  /\ dragListeners.mousemove > 0
  /\ dragState # NoDrag
  /\ handleMouseMove(mmTextboxes, dragState, cx, cy)
  /\ InRange(textboxes')
  /\ DragEffect
  /\ focused' = FocusAfter(textboxes, textboxes', focused)
  /\ grab' = [grab EXCEPT !.lx = cx, !.ly = cy]
  /\ UNCHANGED <<modeVars, now>>
  /\ UNCHANGED <<scribbleVars, tabDown>>

WinMouseMove == \E cx \in Coords, cy \in Coords : WinMouseMoveAt(cx, cy)

WinMouseUp ==
  /\ dragListeners.mouseup > 0
  /\ dragState # NoDrag
  /\ handleMouseUp
  /\ DragEffect
  /\ UNCHANGED <<textboxes, modeVars, now, focused, grab>>
  /\ UNCHANGED <<scribbleVars, tabDown>>

DoubleClickAt(i) ==
  /\ i \in 1 .. Len(textboxes)
  /\ dragState = NoDrag
  /\ focused \in {0, i}
  /\ LET edit(tb) == IF tb.id = textboxes[i].id THEN [tb EXCEPT !.isEditing = TRUE]
                     ELSE tb
     IN  textboxes' = [j \in 1 .. Len(textboxes) |-> edit(textboxes[j])]
  /\ focused' = IF textboxes[i].isEditing THEN i
                ELSE FocusAfter(textboxes, textboxes', focused)
  /\ KeepGrab
  /\ UNCHANGED <<modeVars, dragState, mmTextboxes, dragListeners, now>>
  /\ UNCHANGED <<scribbleVars, tabDown>>

DoubleClick == \E i \in 1 .. Len(textboxes) : DoubleClickAt(i)

\* A click into the textarea of an editing box gives it the focus.
FocusTextarea ==
  \E i \in 1 .. Len(textboxes) :
    /\ focused = 0
    /\ textboxes[i].isEditing
    /\ focused' = i
    /\ UNCHANGED <<textboxes, modeVars, dragState, mmTextboxes, dragListeners, now>>
    /\ KeepGrab
    /\ UNCHANGED <<scribbleVars, tabDown>>

\* textarea onChange: the field's new value is v.
Change ==
  \E v \in Texts :
    /\ focused # 0
    /\ LET type(tb) == IF tb.id = textboxes[focused].id THEN [tb EXCEPT !.text = v]
                       ELSE tb
       IN  textboxes' = [j \in 1 .. Len(textboxes) |-> type(textboxes[j])]
    /\ UNCHANGED <<modeVars, dragState, mmTextboxes, dragListeners, now, focused>>
    /\ KeepGrab
    /\ UNCHANGED <<scribbleVars, tabDown>>

\* Where the focus goes when a textarea loses it (e.relatedTarget): to
\* nothing that takes the focus, to the delete button of the box, or to
\* another button of the page (a tool button, a colour swatch).
FocusTargets == {"none", "deleteButton", "otherButton"}

\* e.relatedTarget?.matches('button')
MatchesButton(target) == target \in {"deleteButton", "otherButton"}

\* textarea onBlur, the focus going to target.  The textarea is controlled:
\* its value is the box's text.
BlurTo(target) ==
  /\ focused # 0
  /\ IF ~MatchesButton(target)
     THEN handleTextChange(textboxes[focused].id, textboxes[focused].text)
     ELSE UNCHANGED textboxes
  /\ focused' = 0
  /\ UNCHANGED <<modeVars, dragState, mmTextboxes, dragListeners, now>>
  /\ KeepGrab
  /\ UNCHANGED <<scribbleVars, tabDown>>

Blur == \E target \in FocusTargets : BlurTo(target)

\* textarea onKeyDown for Enter.  Both setTextboxes calls map the same
\* render's textboxes; the second one is the state that results.
KeyDownEnterWith(shift) ==
  /\ focused # 0
  /\ IF ~shift
     THEN LET done(tb) == IF tb.id = textboxes[focused].id
                          THEN [tb EXCEPT !.isEditing = FALSE] ELSE tb
          IN  textboxes' = [j \in 1 .. Len(textboxes) |-> done(textboxes[j])]
     ELSE UNCHANGED textboxes
  /\ focused' = FocusAfter(textboxes, textboxes', focused)
  /\ UNCHANGED <<modeVars, dragState, mmTextboxes, dragListeners, now>>
  /\ KeepGrab
  /\ UNCHANGED <<scribbleVars, tabDown>>

KeyDownEnter == \E shift \in BOOLEAN : KeyDownEnterWith(shift)

\* The delete button is rendered in the editing branch of a box only.
HasDeleteControl(tb) == tb.isEditing

\* A click on the delete button of box i.  Its pointer-down is stopped on
\* the button: it starts no drag and moves no focus.
ClickDeleteAt(i) ==
  /\ i \in 1 .. Len(textboxes)
  /\ dragState = NoDrag
  /\ HasDeleteControl(textboxes[i])
  /\ LET keep == {j \in 1 .. Len(textboxes) : textboxes[j].id # textboxes[i].id}
         new == SelectSeq(textboxes, LAMBDA tb : tb.id # textboxes[i].id)
     IN  /\ textboxes' = new
         /\ focused' = IF focused \in keep
                       THEN Cardinality({j \in keep : j <= focused})
                       ELSE 0
  /\ KeepGrab
  /\ UNCHANGED <<modeVars, dragState, mmTextboxes, dragListeners, now>>
  /\ UNCHANGED <<scribbleVars, tabDown>>

ClickDelete == \E i \in 1 .. Len(textboxes) : ClickDeleteAt(i)

TKeyDownTab ==
  /\ tabDown' = TRUE
  /\ isTabPressedT' = TRUE
  /\ UNCHANGED <<textboxes, isTextboxMode, dragState, mmTextboxes, dragListeners, now, focused>>
  /\ KeepGrab
  /\ UNCHANGED scribbleVars

TKeyUpTab ==
  /\ tabDown
  /\ tabDown' = FALSE
  /\ isTabPressedT' = FALSE
  /\ UNCHANGED <<textboxes, isTextboxMode, dragState, mmTextboxes, dragListeners, now, focused>>
  /\ KeepGrab
  /\ UNCHANGED scribbleVars

KeyDownT ==
  /\ IF isTabPressedT
     THEN isTextboxMode' = ~isTextboxMode /\ isTabPressedT' = FALSE
     ELSE UNCHANGED <<isTextboxMode, isTabPressedT>>
  /\ UNCHANGED <<textboxes, dragState, mmTextboxes, dragListeners, now, focused>>
  /\ KeepGrab
  /\ UNCHANGED <<scribbleVars, tabDown>>

TKeyDownEscape ==
  /\ IF isTextboxMode
     THEN isTextboxMode' = FALSE /\ isTabPressedT' = FALSE
     ELSE UNCHANGED <<isTextboxMode, isTabPressedT>>
  /\ UNCHANGED <<textboxes, dragState, mmTextboxes, dragListeners, now, focused>>
  /\ KeepGrab
  /\ UNCHANGED <<scribbleVars, tabDown>>

\* The clock advances.
Tick ==
  /\ now < MaxClock
  /\ now' = now + 1
  /\ UNCHANGED <<textboxes, modeVars, dragState, mmTextboxes, dragListeners, focused>>
  /\ KeepGrab
  /\ UNCHANGED <<scribbleVars, tabDown>>

\* ------------------------------------------------------------- system
\* The state after mount: the surface sized by the first updateCanvasSize
\* (the element's default size differs from the container's).
ScribbleInit ==
  /\ isScribbleMode = FALSE
  /\ isDrawing = FALSE
  /\ isEraser = FALSE
  /\ isSpaceHeld = FALSE
  /\ backgroundState = FALSE
  /\ displayIntroText = TRUE
  /\ isMouseDown = FALSE
  /\ didDrawInStroke = FALSE
  /\ raster = {}
  /\ pathCells = {}
  /\ pen = NoPoint
  /\ gco = "source-over"
  /\ lineWidth = PencilWidth
  /\ isTabPressed = FALSE
  /\ spaceDown = FALSE
  /\ eDown = FALSE
  /\ pairOpen = FALSE
  /\ begins = 0
  /\ cleared = FALSE

TextInit ==
  /\ textboxes = <<>>
  /\ isTextboxMode = FALSE
  /\ dragState = NoDrag
  /\ mmTextboxes = <<>>
  /\ dragListeners = NoListeners
  /\ isTabPressedT = FALSE
  /\ now = 0
  /\ focused = 0
  /\ grab = NoGrab
  /\ tabDown = FALSE

Init ==
  /\ ScribbleInit
  /\ TextInit
  /\ ctxOk = TRUE
  /\ \E l \in LayoutSet :
       /\ canvasW = l[1] * l[3]
       /\ canvasH = l[2] * l[3]
       /\ scale = l[3]
       /\ lastDrawnState \in {NoImage, GetImageData(l[1] * l[3], l[2] * l[3], {})}

Next ==
  \/ MouseDown
  \/ MouseMove
  \/ MouseUp
  \/ MouseOut
  \/ KeyDownSpace
  \/ KeyUpSpace
  \/ KeyDownE
  \/ KeyUpE
  \/ KeyDownTab
  \/ KeyUpTab
  \/ KeyDownS
  \/ KeyDownEscape
  \/ ClickPencil
  \/ ClickEraser
  \/ ClickClear
  \/ Resize

Spec == Init /\ [][Next]_vars

\* The surface with or without a 2D context.  Without one the mount effect
\* returns at once: no snapshot is taken, and nothing reads the size of the
\* surface but the pointer positions.
InitFaults ==
  /\ ScribbleInit
  /\ TextInit
  /\ ctxOk \in BOOLEAN
  /\ \E l \in LayoutSet :
       /\ canvasW = l[1] * l[3]
       /\ canvasH = l[2] * l[3]
       /\ scale = l[3]
       /\ lastDrawnState \in
            IF ctxOk THEN {NoImage, GetImageData(l[1] * l[3], l[2] * l[3], {})}
            ELSE {NoImage}

SpecFaults == InitFaults /\ [][Next]_vars

\* The textbox overlay, over a surface that stays as mounted.
TextNext ==
  \/ OverlayClick
  \/ BoxMouseDown
  \/ WinMouseMove
  \/ WinMouseUp
  \/ DoubleClick
  \/ FocusTextarea
  \/ Change
  \/ Blur
  \/ KeyDownEnter
  \/ ClickDelete
  \/ TKeyDownTab
  \/ TKeyUpTab
  \/ KeyDownT
  \/ TKeyDownEscape
  \/ Tick

InitText ==
  /\ ScribbleInit
  /\ TextInit
  /\ ctxOk = TRUE
  /\ canvasW = 1
  /\ canvasH = 1
  /\ scale = 1
  /\ lastDrawnState = GetImageData(1, 1, {})

SpecText == InitText /\ [][TextNext]_vars

\* ================================================================= claims
\* The surface positions (CSS pixels) at which a raster px, held under
\* scale s, shows something.
Surface(px, s) == {<<c[1] \div s, c[2] \div s>> : c \in px}

\* C1: whenever scribble mode goes from on to off, the stroke is stopped:
\* right after, isDrawing and the pointer-held flag are false.
C1_ModeOffStopsStroke ==
  [][(isScribbleMode /\ ~isScribbleMode') => (~isDrawing' /\ ~isMouseDown')]_vars

\* C2: after the keyup of space or of E the active tool is the resting tool
\* and the draw-trigger-held flag is false, in scribble mode or out of it.
C2_KeyUpRestoresTool ==
  [][(KeyUpSpace \/ KeyUpE) => (isEraser' = backgroundState' /\ ~isSpaceHeld')]_vars

\* C3: when the machine goes from drawing to not drawing and a segment was
\* painted during the stroke, the saved snapshot is the raster as it then is.
C3_SnapshotAfterStroke ==
  [][(isDrawing /\ ~isDrawing' /\ didDrawInStroke)
       => lastDrawnState' = GetImageData(canvasW', canvasH', raster')]_vars

\* C4: a resize that changes the surface dimensions, with a scratch copy or
\* a saved snapshot to restore from, keeps every drawn surface position that
\* the new surface still has.
C4_ResizeKeepsContent ==
  [][\A l \in LayoutSet, tempOk \in BOOLEAN :
       (/\ ResizeTo(l, tempOk)
        /\ <<canvasW', canvasH'>> # <<canvasW, canvasH>>
        /\ (tempOk \/ lastDrawnState # NoImage))
       => \A c \in Surface(raster, scale) :
            (c[1] < l[1] /\ c[2] < l[2]) => c \in Surface(raster', scale')]_vars

\* C5: between a pointer-down in scribble mode and its pointer-up, with only
\* pointer-moves in between, exactly one path has been begun, the machine is
\* drawing, and what has been painted is the stroke of that path.
C5_OneStrokePerPair ==
  pairOpen =>
    /\ begins = 1
    /\ isDrawing /\ isMouseDown
    /\ didDrawInStroke => raster = Stroke(gco, raster, pathCells, canvasW, canvasH)

C5_Witness ==
  pairOpen /\ didDrawInStroke /\ raster # {} /\ Cardinality(pathCells) > 1

\* C6: while scribble mode is off no pointer or key event begins or extends
\* a path, paints, or sets isDrawing (a step that leaves the surface
\* dimensions alone is one of these events).
C6_NoDrawingWhenOff ==
  [][(~isScribbleMode /\ UNCHANGED <<canvasW, canvasH, scale>>)
       => (UNCHANGED <<raster, pathCells, pen>> /\ (isDrawing' => isDrawing))]_vars

C6_Witness ==
  ~isScribbleMode /\ isDrawing /\ isMouseDown /\ isSpaceHeld /\ ~spaceDown /\ ~eDown
    /\ raster # {}

\* C7: a click on the placement catcher in textbox mode leaves the previous
\* boxes as they were, in order, and appends one box at the click's page
\* coordinates, empty and editing, and textbox mode is off afterwards; a
\* click out of textbox mode creates nothing.
C7_ClickCreatesOneBox ==
  [][\A cx \in Coords, cy \in Coords, sx \in Scrolls, sy \in Scrolls :
       OverlayClickAt(cx, cy, sx, sy) =>
         IF isTextboxMode
         THEN /\ Len(textboxes') = Len(textboxes) + 1
              /\ SubSeq(textboxes', 1, Len(textboxes)) = textboxes
              /\ textboxes'[Len(textboxes')].x = cx + sx
              /\ textboxes'[Len(textboxes')].y = cy + sy
              /\ textboxes'[Len(textboxes')].text = ""
              /\ textboxes'[Len(textboxes')].isEditing
              /\ ~isTextboxMode'
         ELSE textboxes' = textboxes /\ ~isTextboxMode']_vars

C7_Witness ==
  /\ Len(textboxes) = 2
  /\ ~isTextboxMode
  /\ focused = 2
  /\ textboxes[2].text = "" /\ textboxes[2].isEditing
  /\ textboxes[2].x = 1 /\ textboxes[2].y = 1
  /\ ~textboxes[1].isEditing /\ textboxes[1].text = "a"

\* C8: the ids of the boxes in the collection are pairwise distinct.
C8_IdsDistinct ==
  \A i \in 1 .. Len(textboxes), j \in 1 .. Len(textboxes) :
    i # j => textboxes[i].id # textboxes[j].id

\* C9: during a drag and after its pointer-up, the dragged box is at its
\* position at pointer-down plus (pointer position now - pointer position
\* at pointer-down).
C9_DragAccumulates ==
  (grab.idx # 0 /\ grab.idx <= Len(textboxes)) =>
    /\ textboxes[grab.idx].x = grab.ox + (grab.lx - grab.px)
    /\ textboxes[grab.idx].y = grab.oy + (grab.ly - grab.py)

C9_Witness ==
  /\ grab.idx # 0
  /\ dragState = NoDrag
  /\ grab.lx # grab.px /\ grab.ly # grab.py
  /\ textboxes[grab.idx].x # grab.ox /\ textboxes[grab.idx].y # grab.oy

\* C10: a pointer-move handled during a drag leaves every box whose id is
\* not the dragged one as it was, and the collection's length and order.
C10_DragLeavesOthers ==
  [][\A cx \in Coords, cy \in Coords :
       WinMouseMoveAt(cx, cy) =>
         /\ Len(textboxes') = Len(textboxes)
         /\ \A j \in 1 .. Len(textboxes) :
              textboxes[j].id # dragState.id => textboxes'[j] = textboxes[j]]_vars

\* The collection without its i-th box.
Without(boxes, i) ==
  [j \in 1 .. Len(boxes) - 1 |-> IF j < i THEN boxes[j] ELSE boxes[j + 1]]

\* C11: a click on the delete button of a box leaves the collection as it
\* was with that one box taken out: every other box is there, unchanged and
\* in the same order.
C11_DeleteRemovesExactlyOne ==
  [][\A i \in 1 .. MaxBoxes : ClickDeleteAt(i) => textboxes' = Without(textboxes, i)]_vars

\* C12: whenever the pointer is free, every box of the collection, editing
\* or not, can be removed by a click on its delete button.
C12_DeleteAlwaysAvailable ==
  dragState = NoDrag => \A i \in 1 .. Len(textboxes) : ENABLED ClickDeleteAt(i)

\* The collection with box i committed: its text the field value v, out of
\* editing state, the other boxes as they were.
Committed(boxes, i, v) == [boxes EXCEPT ![i].text = v, ![i].isEditing = FALSE]

\* C13: a textarea that loses the focus to anything but the delete button of
\* its box, or in which Enter is pressed without Shift, is committed; when
\* the focus goes to the delete button, or Enter is pressed with Shift, the
\* collection is left as it was.
C13_CommitStoresAndExits ==
  [][/\ \A target \in FocusTargets :
          BlurTo(target) =>
            IF target # "deleteButton"
            THEN textboxes' = Committed(textboxes, focused, textboxes[focused].text)
            ELSE textboxes' = textboxes
     /\ \A shift \in BOOLEAN :
          KeyDownEnterWith(shift) =>
            IF ~shift
            THEN textboxes' = Committed(textboxes, focused, textboxes[focused].text)
            ELSE textboxes' = textboxes]_vars

\* C14: while Tab is held down, every keydown of S flips scribble mode and
\* every keydown of T flips textbox mode; Escape leaves each mode off.
C14_ChordFlipsOnEveryPress ==
  [][/\ (tabDown /\ KeyDownS) => isScribbleMode' = ~isScribbleMode
     /\ (tabDown /\ KeyDownT) => isTextboxMode' = ~isTextboxMode
     /\ KeyDownEscape => ~isScribbleMode'
     /\ TKeyDownEscape => ~isTextboxMode']_vars

\* What C15 lists as the state an operation that fails leaves alone.
surfaceState == <<isDrawing, isMouseDown, canvasW, canvasH, raster, lastDrawnState>>

\* C15: an operation on the surface that finds no drawing context, and a
\* resize that gets no scratch buffer, change nothing: isDrawing, the
\* pointer-held flag, the surface dimensions, the raster and the saved
\* snapshot are as before.
C15_FailuresAreNoOps ==
  [][/\ (~ctxOk /\ (MouseDown \/ MouseMove \/ MouseUp \/ MouseOut \/ KeyUpSpace
                      \/ KeyUpE \/ ClickClear \/ Resize))
          => UNCHANGED surfaceState
     /\ \A l \in LayoutSet : ResizeTo(l, FALSE) => UNCHANGED surfaceState]_vars

\* A hold of space alone, or of E alone, that scribble mode has taken note
\* of and that goes on through a step made in scribble mode.
SpaceHoldGoesOn ==
  /\ isScribbleMode /\ isScribbleMode'
  /\ isSpaceHeld /\ spaceDown /\ spaceDown' /\ ~eDown /\ ~eDown'

EHoldGoesOn ==
  /\ isScribbleMode /\ isScribbleMode'
  /\ isSpaceHeld /\ eDown /\ eDown' /\ ~spaceDown /\ ~spaceDown'

\* C16: in scribble mode the keydown of space makes the pencil the active
\* tool and the keydown of E makes the eraser the active tool and sets the
\* draw-trigger-held flag; while the hold goes on no step undoes that; and
\* no keydown or keyup of space or E changes the resting tool.
C16_HoldOverridesTool ==
  [][/\ (isScribbleMode /\ KeyDownSpace) => ~isEraser'
     /\ (isScribbleMode /\ KeyDownE) => (isEraser' /\ isSpaceHeld')
     /\ (SpaceHoldGoesOn /\ ~isEraser) => ~isEraser'
     /\ (EHoldGoesOn /\ isEraser) => (isEraser' /\ isSpaceHeld')
     /\ (KeyDownSpace \/ KeyUpSpace \/ KeyDownE \/ KeyUpE) => UNCHANGED backgroundState]_vars

\* C17: in scribble mode a pointer-move at p made while space is down starts
\* a stroke at p when the machine is idle, and extends the path to p and
\* paints it when the machine is drawing.
C17_MoveDrawsWhileSpaceDown ==
  (isScribbleMode /\ spaceDown) =>
    \A p \in Positions :
      ENABLED (/\ MouseMoveAt(p)
               /\ IF ~isDrawing
                  THEN isDrawing' /\ pen' = p /\ pathCells' = {}
                  ELSE /\ pen' = p
                       /\ didDrawInStroke'
                       /\ raster' = Stroke(gco, raster, pathCells', canvasW, canvasH))

\* C18: in scribble mode, after a pointer-up, a pointer-out or the keyup of
\* space or E the machine is idle: isDrawing and the pointer-held flag are
\* false and the compositing mode is source-over; when the machine was idle
\* already the stroke, the context and the raster are as they were.
GoesIdle ==
  /\ ~isDrawing' /\ ~isMouseDown' /\ gco' = "source-over"
  /\ ~isDrawing => UNCHANGED <<strokeVars, ctxVars, raster>>

C18_StopEventsGoIdle ==
  isScribbleMode =>
    /\ ENABLED (MouseUp /\ GoesIdle)
    /\ ENABLED (MouseOut /\ GoesIdle)
    /\ spaceDown => ENABLED (KeyUpSpace /\ GoesIdle)
    /\ eDown => ENABLED (KeyUpE /\ GoesIdle)

\* An eraser stroke that painted has been stopped: the context still has the
\* eraser's width, and its compositing mode is back at source-over.
C18_Witness ==
  /\ isScribbleMode /\ ~isDrawing /\ ~isMouseDown
  /\ lineWidth = EraserWidth /\ gco = "source-over"
  /\ pathCells # {} /\ isEraser

\* C19: a pointer-down on a box that is not editing sets the drag state to
\* the box's id and the pointer position; a pointer-down on an editing box
\* or a click on the delete button starts no drag; and no step moves a box
\* that is editing before and after it.
C19_DragOnlyWhenNotEditing ==
  [][/\ \A i \in 1 .. MaxBoxes, cx \in Coords, cy \in Coords :
          BoxMouseDownAt(i, cx, cy) =>
            IF ~textboxes[i].isEditing
            THEN dragState' = [id |-> textboxes[i].id, startX |-> cx, startY |-> cy]
            ELSE dragState' = NoDrag
     /\ ClickDelete => dragState' = NoDrag
     /\ Len(textboxes') = Len(textboxes) =>
          \A j \in 1 .. Len(textboxes) :
            (textboxes[j].isEditing /\ textboxes'[j].isEditing) =>
              (textboxes'[j].x = textboxes[j].x /\ textboxes'[j].y = textboxes[j].y)]_vars

\* C20: a double-click on a box that is not editing sets its isEditing and
\* leaves its text and position, every other box and the order as they
\* were; so do the pointer-downs and pointer-ups on a box.
C20_DoubleClickOnlyEdits ==
  [][/\ \A i \in 1 .. MaxBoxes :
          (DoubleClickAt(i) /\ ~textboxes[i].isEditing) =>
            textboxes' = [textboxes EXCEPT ![i].isEditing = TRUE]
     /\ (BoxMouseDown \/ WinMouseUp) => textboxes' = textboxes]_vars

\* C21: the drag effect's mousemove and mouseup listeners are on window
\* exactly while the drag state is set, one of each, and none once the
\* pointer-up has ended the drag.
C21_ListenersWhileDragging ==
  /\ dragListeners.mousemove = (IF dragState # NoDrag THEN 1 ELSE 0)
  /\ dragListeners.mouseup = (IF dragState # NoDrag THEN 1 ELSE 0)

\* A drag in progress, after a pointer-move that made the effect run again.
C21_Witness ==
  /\ dragState # NoDrag
  /\ dragListeners = [mousemove |-> 1, mouseup |-> 1]
  /\ grab.idx # 0
  /\ (grab.lx # grab.px \/ grab.ly # grab.py)
  /\ textboxes[grab.idx].x # grab.ox

\* C22: when a pointer-move extends and paints the path, the context is set
\* to erase (destination-out, width 20) if and only if the active tool is
\* the eraser.
C22_SegmentUsesActiveTool ==
  [][\A p \in Positions :
       (Paints /\ MouseMoveAt(p)) =>
         (isEraser <=> (gco = "destination-out" /\ lineWidth = EraserWidth))]_vars

\* C23: from the clear until a stroke paints something the raster is empty,
\* whatever resizes and scrolls happen in between.
C23_ClearedStaysCleared == cleared => raster = {}

\* C24: the pointer-held flag is true exactly when isDrawing is, so in the
\* idle state with the draw-trigger-held flag clear no pointer-move starts a
\* stroke.
C24_PointerHeldMirrorsDrawing ==
  /\ isMouseDown <=> isDrawing
  /\ (~isDrawing /\ ~isSpaceHeld) => ~ENABLED (MouseMove /\ isDrawing')

\* Idle again after a stroke that painted, the draw-trigger-held flag clear.
C24_Witness ==
  /\ isScribbleMode /\ ~isDrawing /\ ~isMouseDown /\ ~isSpaceHeld
  /\ ~displayIntroText /\ raster # {} /\ pen # NoPoint
  /\ ~spaceDown /\ ~eDown

====
